---- MODULE Spec2Model ----
(***************************************************************************)
(* A model of the two utilities of the repository:                         *)
(*   - src/MortgageCalculator.py: mortgage_calculator (the amortization    *)
(*     engine) and export_payment_schedule_to_csv;                         *)
(*   - src/MockHttpqrequest.py: MockHttpRequest._make_request.             *)
(*                                                                         *)
(* Python's float is IEEE-754 binary64.  The calculator's arithmetic is    *)
(* modelled bit for bit: a float is a sign, a 53-bit significand and an    *)
(* exponent, and every operation rounds its exact result to nearest, ties  *)
(* to even.  TLC's integers are 32 bits wide, so significands are          *)
(* arbitrary-precision naturals (sequences of 15-bit limbs, least          *)
(* significant first).  The exponent range is not modelled: the inputs of  *)
(* the model stay far from overflow and from the subnormal range.          *)
(***************************************************************************)
EXTENDS Integers, Sequences, FiniteSets, TLC

\* ------------------------------------------------------------------------
\* Arbitrary-precision naturals: sequences of limbs, least significant first,
\* with no zero limb at the top (zero is the empty sequence).
\*
\* TLC evaluates operator arguments on demand and has a small evaluation
\* stack, so the operators below halve ranges of limbs rather than walk them,
\* and test a half's result before they enter the other half.
\* ------------------------------------------------------------------------

LimbBits == 10 + 5
Base == 2 ^ LimbBits

Max(a, b) == IF a >= b THEN a ELSE b
Min(a, b) == IF a <= b THEN a ELSE b

SetMax(S) == CHOOSE i \in S : \A j \in S : j <= i

BNorm(a) ==
  IF a = << >> THEN a
  ELSE IF a[Len(a)] # 0 THEN a
  ELSE LET nz == {i \in 1..Len(a) : a[i] # 0}
       IN  IF nz = {} THEN << >> ELSE SubSeq(a, 1, SetMax(nz))

RECURSIVE BFromInt(_)
BFromInt(n) == IF n = 0 THEN << >> ELSE << n % Base >> \o BFromInt(n \div Base)

BLimb(a, i) == IF 1 <= i /\ i <= Len(a) THEN a[i] ELSE 0

\* -1, 0, 1 as a <, =, > b, decided at the highest limb that differs
RECURSIVE BCmpFrom(_, _, _)
BCmpFrom(a, b, i) ==
  IF a[i] > b[i] THEN 1
  ELSE IF a[i] < b[i] THEN -1
  ELSE BCmpFrom(a, b, i - 1)

BCmp(a, b) ==
  IF Len(a) > Len(b) THEN 1
  ELSE IF Len(a) < Len(b) THEN -1
  ELSE IF a = b THEN 0
  ELSE BCmpFrom(a, b, Len(a))

\* The limbs lo..hi of the number whose columns are t (integers, possibly
\* negative or beyond a limb), given the carry c into column lo, and the carry
\* out of column hi.
RECURSIVE BCarry(_, _, _, _)
BCarry(t, lo, hi, c) ==
  IF lo = hi
  THEN [s |-> << (t[lo] + c) % Base >>, c |-> (t[lo] + c) \div Base]
  ELSE LET mid == (lo + hi) \div 2
           dn  == BCarry(t, lo, mid, c)
       IN  IF dn.c = 0
           THEN LET up == BCarry(t, mid + 1, hi, 0)
                IN  [s |-> dn.s \o up.s, c |-> up.c]
           ELSE LET up == BCarry(t, mid + 1, hi, dn.c)
                IN  [s |-> dn.s \o up.s, c |-> up.c]

\* the natural number whose columns are t (the carry out of the top column is
\* zero or a single limb)
BFromColumns(t) ==
  IF t = << >> THEN << >>
  ELSE LET r == BCarry(t, 1, Len(t), 0)
       IN  BNorm(IF r.c = 0 THEN r.s ELSE r.s \o << r.c >>)

BAdd(a, b) ==
  BFromColumns([i \in 1..Max(Len(a), Len(b)) |-> BLimb(a, i) + BLimb(b, i)])

\* a - b for a >= b
BSub(a, b) == BFromColumns([i \in 1..Len(a) |-> a[i] - BLimb(b, i)])

\* a * k for 0 <= k < Base
BMulSmall(a, k) == BFromColumns([i \in 1..Len(a) |-> a[i] * k])

BShiftLimbs(a, n) == IF a = << >> THEN a ELSE [i \in 1..n |-> 0] \o a

\* a times the limbs lo..hi of b, each at its place
RECURSIVE BMulRange(_, _, _, _)
BMulRange(a, b, lo, hi) ==
  IF lo > hi THEN << >>
  ELSE IF lo = hi THEN BShiftLimbs(BMulSmall(a, b[lo]), lo - 1)
  ELSE LET dn == BMulRange(a, b, lo, (lo + hi) \div 2)
       IN  IF dn = << >> THEN BMulRange(a, b, (lo + hi) \div 2 + 1, hi)
           ELSE BAdd(dn, BMulRange(a, b, (lo + hi) \div 2 + 1, hi))

BMul(a, b) ==
  IF Len(a) >= Len(b) THEN BMulRange(a, b, 1, Len(b)) ELSE BMulRange(b, a, 1, Len(a))

RECURSIVE SmallBitLen(_)
SmallBitLen(n) == IF n = 0 THEN 0 ELSE 1 + SmallBitLen(n \div 2)

BBitLen(a) == IF a = << >> THEN 0 ELSE LimbBits * (Len(a) - 1) + SmallBitLen(a[Len(a)])

\* a * 2^s
BShl(a, s) ==
  LET q == s \div LimbBits
      r == s % LimbBits
  IN  BNorm([i \in 1..(Len(a) + q + 1) |->
               IF i <= q THEN 0
               ELSE (BLimb(a, i - q) % (2 ^ (LimbBits - r))) * (2 ^ r)
                    + BLimb(a, i - q - 1) \div (2 ^ (LimbBits - r))])

\* floor(a / 2^s)
BShr(a, s) ==
  LET q == s \div LimbBits
      r == s % LimbBits
  IN  IF q >= Len(a) THEN << >>
      ELSE BNorm([i \in 1..(Len(a) - q) |->
                    BLimb(a, i + q) \div (2 ^ r)
                    + (BLimb(a, i + q + 1) % (2 ^ r)) * (2 ^ (LimbBits - r))])

\* bit i of a, bit 0 the least significant
BBit(a, i) == (BLimb(a, i \div LimbBits + 1) \div (2 ^ (i % LimbBits))) % 2

BOdd(a) == a # << >> /\ a[1] % 2 = 1

\* floor(r / b) for r < b * Base, b > 0: the largest d with d * b <= r, by
\* bisection
RECURSIVE BDivDigit(_, _, _, _)
BDivDigit(r, b, d, j) ==
  IF j < 0 THEN d
  ELSE IF BCmp(BMulSmall(b, d + 2 ^ j), r) <= 0
       THEN BDivDigit(r, b, d + 2 ^ j, j - 1)
       ELSE BDivDigit(r, b, d, j - 1)

\* the quotient limbs lo..hi of a / b, given the remainder r left by the limbs
\* above hi
RECURSIVE BDivRange(_, _, _, _, _)
BDivRange(a, b, lo, hi, r) ==
  IF lo = hi
  THEN LET r1 == BNorm(<< a[lo] >> \o r)
       IN  IF BCmp(r1, b) < 0 THEN [q |-> << 0 >>, r |-> r1]
           ELSE LET d == BDivDigit(r1, b, 0, LimbBits - 1)
                IN  [q |-> << d >>, r |-> BSub(r1, BMulSmall(b, d))]
  ELSE LET mid == (lo + hi) \div 2
           up  == BDivRange(a, b, mid + 1, hi, r)
       IN  IF up.r = << >>
           THEN LET dn == BDivRange(a, b, lo, mid, << >>)
                IN  [q |-> dn.q \o up.q, r |-> dn.r]
           ELSE LET dn == BDivRange(a, b, lo, mid, up.r)
                IN  [q |-> dn.q \o up.q, r |-> dn.r]

\* floor(a / b) and a mod b for b > 0
BDivMod(a, b) ==
  IF a = << >> THEN [q |-> << >>, r |-> << >>]
  ELSE LET qr == BDivRange(a, b, 1, Len(a), << >>)
       IN  [q |-> BNorm(qr.q), r |-> qr.r]

\* ------------------------------------------------------------------------
\* Python floats (binary64).  A float is [s, m, e] with value (-1)^s * m * 2^e,
\* where m is zero (and e = 0) or has exactly MantBits bits.
\* ------------------------------------------------------------------------

MantBits == 53

FZero(s) == [s |-> s, m |-> << >>, e |-> 0]

FIsZero(x) == x.m = << >>

\* whether the k low bits of m are all zero
BLowZero(m, k) ==
  /\ \A i \in 1..(k \div LimbBits) : BLimb(m, i) = 0
  /\ BLimb(m, k \div LimbBits + 1) % (2 ^ (k % LimbBits)) = 0

\* a significand of MantBits bits, or of MantBits + 1 bits after a carry out
FPack(s, q, e) ==
  IF BBitLen(q) > MantBits THEN [s |-> s, m |-> BShr(q, 1), e |-> e + 1]
  ELSE [s |-> s, m |-> q, e |-> e]

\* The two floats that bracket the exact value (-1)^s * m * 2^e, m # 0 of more
\* than MantBits bits: the one towards zero and the one away from it.
FTowardZero(s, m, e) ==
  LET sh == BBitLen(m) - MantBits IN FPack(s, BShr(m, sh), e + sh)

FAwayFromZero(s, m, e) ==
  LET sh == BBitLen(m) - MantBits IN FPack(s, BAdd(BShr(m, sh), << 1 >>), e + sh)

FExact(m) == BBitLen(m) <= MantBits \/ BLowZero(m, BBitLen(m) - MantBits)

\* round to nearest, ties to even
FRound(s, m, e) ==
  IF m = << >> THEN FZero(s)
  ELSE IF BBitLen(m) <= MantBits
  THEN [s |-> s, m |-> BShl(m, MantBits - BBitLen(m)), e |-> e - (MantBits - BBitLen(m))]
  ELSE LET sh == BBitLen(m) - MantBits
           up == /\ BBit(m, sh - 1) = 1
                 /\ (~BLowZero(m, sh - 1) \/ BOdd(BShr(m, sh)))
       IN  IF up THEN FAwayFromZero(s, m, e) ELSE FTowardZero(s, m, e)

\* Every float within one unit in the last place of the exact value: what a
\* library function that is accurate but not correctly rounded may return.
FFaithful(s, m, e) ==
  IF m = << >> \/ FExact(m) THEN {FRound(s, m, e)}
  ELSE {FTowardZero(s, m, e), FAwayFromZero(s, m, e)}

\* num / den * 2^e for naturals num and den # 0, as an exact value whose last
\* bit is sticky: [m, e] with at least MantBits + 2 bits
FQuotient(num, den, e) ==
  LET k  == Max(0, MantBits + 3 + BBitLen(den) - BBitLen(num))
      qr == BDivMod(BShl(num, k), den)
  IN  [m |-> BAdd(BShl(qr.q, 1), IF qr.r = << >> THEN << >> ELSE << 1 >>),
       e |-> e - k - 1]

FFromRatio(s, num, den) ==
  IF num = << >> THEN FZero(s)
  ELSE LET v == FQuotient(num, den, 0) IN FRound(s, v.m, v.e)

FFromInt(n) == IF n >= 0 THEN FRound(0, BFromInt(n), 0) ELSE FRound(1, BFromInt(-n), 0)

FNeg(x) == [x EXCEPT !.s = 1 - x.s]

FAbs(x) == [x EXCEPT !.s = 0]

\* -1, 0, 1 as |x| <, =, > |y|
FCmpAbs(x, y) ==
  IF FIsZero(x) THEN (IF FIsZero(y) THEN 0 ELSE -1)
  ELSE IF FIsZero(y) THEN 1
  ELSE IF x.e > y.e THEN 1
  ELSE IF x.e < y.e THEN -1
  ELSE BCmp(x.m, y.m)

FCmp(x, y) ==
  IF FIsZero(x) /\ FIsZero(y) THEN 0
  ELSE IF FIsZero(x) THEN (IF y.s = 0 THEN -1 ELSE 1)
  ELSE IF FIsZero(y) THEN (IF x.s = 0 THEN 1 ELSE -1)
  ELSE IF x.s # y.s THEN (IF x.s = 0 THEN 1 ELSE -1)
  ELSE IF x.s = 0 THEN FCmpAbs(x, y) ELSE FCmpAbs(y, x)

FEq(x, y) == FCmp(x, y) = 0
FLt(x, y) == FCmp(x, y) < 0
FLe(x, y) == FCmp(x, y) <= 0

FAdd(x, y) ==
  IF FIsZero(x) THEN (IF FIsZero(y) THEN FZero(IF x.s = 1 /\ y.s = 1 THEN 1 ELSE 0) ELSE y)
  ELSE IF FIsZero(y) THEN x
  ELSE LET e  == Min(x.e, y.e)
           xm == BShl(x.m, x.e - e)
           ym == BShl(y.m, y.e - e)
       IN  IF x.s = y.s THEN FRound(x.s, BAdd(xm, ym), e)
           ELSE IF BCmp(xm, ym) = 0 THEN FZero(0)
           ELSE IF BCmp(xm, ym) > 0 THEN FRound(x.s, BSub(xm, ym), e)
           ELSE FRound(y.s, BSub(ym, xm), e)

FSub(x, y) == FAdd(x, FNeg(y))

FMul(x, y) ==
  IF FIsZero(x) \/ FIsZero(y) THEN FZero((x.s + y.s) % 2)
  ELSE FRound((x.s + y.s) % 2, BMul(x.m, y.m), x.e + y.e)

\* x / y for y # 0 (Python raises ZeroDivisionError before dividing by zero)
FDiv(x, y) ==
  IF FIsZero(x) THEN FZero((x.s + y.s) % 2)
  ELSE LET v == FQuotient(x.m, y.m, x.e - y.e)
       IN  FRound((x.s + y.s) % 2, v.m, v.e)

RECURSIVE BPow(_, _)
BPow(m, n) ==
  IF n = 0 THEN << 1 >>
  ELSE IF n = 1 THEN m
  ELSE LET h == BPow(m, n \div 2)
       IN  IF h = << >> THEN << >> ELSE BMul(h, BPow(m, n - n \div 2))

\* x ** n for a float x and an int n, as float.__pow__ computes it: n is
\* converted to a float and the C library's pow is called, which is accurate to
\* less than one unit in the last place.  Not defined for x = 0 and n < 0
\* (ZeroDivisionError).
FPow(x, n) ==
  IF n = 0 THEN {FFromInt(1)}
  ELSE IF FIsZero(x) THEN {FZero(IF n % 2 = 1 THEN x.s ELSE 0)}
  ELSE LET s == IF n % 2 = 1 THEN x.s ELSE 0
       IN  IF n > 0 THEN FFaithful(s, BPow(x.m, n), x.e * n)
           ELSE LET v == FQuotient(<< 1 >>, BPow(x.m, -n), x.e * n)
                IN  FFaithful(s, v.m, v.e)

\* The float a decimal literal d * 10^p denotes (d an integer): the nearest one.
FDec(d, p) ==
  LET s == IF d < 0 THEN 1 ELSE 0
      n == BFromInt(IF d < 0 THEN -d ELSE d)
  IN  IF p >= 0 THEN FRound(s, BMul(n, BPow(<< 10 >>, p)), 0)
      ELSE FFromRatio(s, n, BPow(<< 10 >>, -p))

\* ------------------------------------------------------------------------
\* Exact values (-1)^s * m * 2^e with m of any length, for sums and
\* tolerances that the claims state over the reals.
\* ------------------------------------------------------------------------

XAdd(x, y) ==
  IF x.m = << >> THEN y
  ELSE IF y.m = << >> THEN x
  ELSE LET e  == Min(x.e, y.e)
           xm == BShl(x.m, x.e - e)
           ym == BShl(y.m, y.e - e)
       IN  IF x.s = y.s THEN [s |-> x.s, m |-> BAdd(xm, ym), e |-> e]
           ELSE IF BCmp(xm, ym) >= 0 THEN [s |-> x.s, m |-> BSub(xm, ym), e |-> e]
           ELSE [s |-> y.s, m |-> BSub(ym, xm), e |-> e]

\* |x| <= num / den for small naturals num, den
XAbsLe(x, num, den) ==
  IF x.m = << >> THEN TRUE
  ELSE IF x.e >= 0 THEN BCmp(BMulSmall(BShl(x.m, x.e), den), BFromInt(num)) <= 0
  ELSE BCmp(BMulSmall(x.m, den), BShl(BFromInt(num), -x.e)) <= 0

\* ------------------------------------------------------------------------
\* mortgage_calculator (src/MortgageCalculator.py)
\* ------------------------------------------------------------------------

VARIABLES
  loan_amount,            \* parameter (a float)
  annual_interest_rate,   \* parameter (a float)
  loan_years,             \* parameter (an int)
  payment_method,         \* parameter (a string)
  pc,                     \* "call", "loop", "returned", "raised"
  exception,              \* the exception raised, "none" before
  monthly_interest_rate,
  total_months,
  monthly_payment,
  monthly_principal,
  total_payment,
  remaining_balance,
  month,                  \* the value the for loop yields next
  monthly_details,        \* the list of (month, payment, principal, interest, balance)
  first_month_payment,
  last_month_payment,
  filepath,               \* export_payment_schedule_to_csv: the path, a sequence of components
  dirs,                   \* the directories that exist, below the working directory
  csvfile,                \* the rows of the file at filepath, None while there is no file
  row,                    \* the index of the schedule entry the export writes next
  max_retries,            \* MockHttpRequest.max_retries
  attempt,                \* _make_request: attempts started
  last_exception,         \* _make_request: the exception of the last failed attempt
  raised,                 \* _make_request: the exception that left the call
  response,               \* _make_request: the response returned
  sleeps,                 \* _make_request: the arguments of time.sleep, in order
  auth_token,             \* MockHttpRequest.auth_token
  token_type,             \* MockHttpRequest.token_type
  authorization,          \* session.headers['Authorization'], None while there is none
  call                    \* the last method called on the MockHttpRequest, with its inputs

calcVars ==
  << loan_amount, annual_interest_rate, loan_years, payment_method, pc, exception,
     monthly_interest_rate, total_months, monthly_payment, monthly_principal,
     total_payment, remaining_balance, month, monthly_details,
     first_month_payment, last_month_payment >>

\* the calculator's variables that the export does not read
calcLocals ==
  << loan_amount, annual_interest_rate, loan_years, exception,
     monthly_interest_rate, total_months, monthly_payment, monthly_principal,
     total_payment, remaining_balance, month, first_month_payment, last_month_payment >>

csvVars == << filepath, dirs, csvfile, row >>

httpVars == << max_retries, attempt, last_exception, raised, response, sleeps >>

authVars == << auth_token, token_type, authorization, call >>

\* Python's None, and a local that is not bound yet
None == [none |-> TRUE]

\* The longest term the model draws, in years.
MaxYears == 2

\* The parameters the model draws.  1300000 and 0.026 are the usage example's;
\* 10^15 is a principal whose unit in the last place is 1/8; 0 and the negative
\* values are the ones the preconditions exclude.
LoanAmounts == {FDec(1300000, 0), FDec(1, 15), FDec(0, 0), FDec(-1000, 0)}
AnnualRates == {FDec(0, 0), FDec(26, -3), FDec(-26, -3)}
LoanYears == -1..MaxYears
PaymentMethods == {"equal_installment", "equal_principal", "unknown"}

\* the tolerance of the final-payment adjustment, the literal 0.01
Tolerance == FDec(1, -2)

\* the branch the if / elif / else on payment_method takes
\* a dispatch without the final else: any other name is served as equal_installment
MethodBranchDefaulting(method) ==
  IF method = "equal_principal" THEN "equal_principal" ELSE "equal_installment"

\* which branch of the if / elif / else over payment_method is taken
MethodBranch(method) ==
  IF method = "equal_installment" THEN "equal_installment"
  ELSE IF method = "equal_principal" THEN "equal_principal"
  ELSE "else"

\* range(1, total_months): a loop that stops one month early
InRangeExclusive(m, n) == 1 <= m /\ m < n

\* whether the for loop over range(1, total_months + 1) yields m
InRange(m, n) == 1 <= m /\ m <= n

\* The values monthly_payment may take under equal_installment, or {} where the
\* division raises ZeroDivisionError.  pw is the value of
\* (1 + monthly_interest_rate) ** total_months, which the formula uses twice.
AnnuityPayment(amount, r, pw) ==
  IF FIsZero(FSub(pw, FFromInt(1))) THEN {}
  ELSE {FDiv(FMul(FMul(amount, r), pw), FSub(pw, FFromInt(1)))}

\* the annuity formula applied at every rate, without the zero-rate case
InstallmentPaymentsNoZeroCase(amount, r, n) ==
  IF FIsZero(FAdd(FFromInt(1), r)) /\ n < 0 THEN {}
  ELSE UNION {AnnuityPayment(amount, r, pw) : pw \in FPow(FAdd(FFromInt(1), r), n)}

InstallmentPayments(amount, r, n) ==
  IF FIsZero(r)
  THEN (IF n = 0 THEN {} ELSE {FDiv(amount, FFromInt(n))})
  ELSE IF FIsZero(FAdd(FFromInt(1), r)) /\ n < 0 THEN {}
  ELSE UNION {AnnuityPayment(amount, r, pw) : pw \in FPow(FAdd(FFromInt(1), r), n)}

\* interest_payment = remaining_balance * monthly_interest_rate
InterestPayment(balance, r) == FMul(balance, r)

\* the final-payment adjustment applies
Adjusts(m, n, balance) == m = n /\ FLt(FAbs(balance), Tolerance)

\* remaining_balance += monthly_principal: the balance update with the wrong sign
BalanceAfterAdding(balance, principal) == FAdd(balance, principal)

\* remaining_balance -= monthly_principal
BalanceAfter(balance, principal) == FSub(balance, principal)

\* a tuple whose payment is recomputed as principal + interest
EntryRecomputed(m, payment, principal, interest, balance) ==
  << m, FAdd(principal, interest), principal, interest, balance >>

\* the tuple appended to monthly_details
Entry(m, payment, principal, interest, balance) ==
  << m, payment, principal, interest, balance >>

\* no export is under way
CsvIdle ==
  /\ filepath = None
  /\ dirs = {}
  /\ csvfile = None
  /\ row = None

\* no MockHttpRequest exists
HttpIdle ==
  /\ max_retries = None
  /\ attempt = None
  /\ last_exception = None
  /\ raised = None
  /\ response = None
  /\ sleeps = << >>

\* no token is modelled
AuthIdle ==
  /\ auth_token = None
  /\ token_type = None
  /\ authorization = None
  /\ call = None

CalcInit ==
  /\ loan_amount \in LoanAmounts
  /\ annual_interest_rate \in AnnualRates
  /\ loan_years \in LoanYears
  /\ payment_method \in PaymentMethods
  /\ pc = "call"
  /\ exception = "none"
  /\ monthly_interest_rate = None
  /\ total_months = None
  /\ monthly_payment = None
  /\ monthly_principal = None
  /\ total_payment = None
  /\ remaining_balance = None
  /\ month = None
  /\ monthly_details = None
  /\ first_month_payment = None
  /\ last_month_payment = None
  /\ CsvIdle
  /\ HttpIdle
  /\ AuthIdle

Raise(e) ==
  /\ pc' = "raised"
  /\ exception' = e

\* lines 28-46, 62-71 and 89-90: the function up to the first iteration of a
\* loop, or to the exception
Call ==
  /\ pc = "call"
  /\ monthly_interest_rate' = FDiv(annual_interest_rate, FFromInt(12))
  /\ total_months' = loan_years * 12
  /\ monthly_details' = << >>
  /\ UNCHANGED << loan_amount, annual_interest_rate, loan_years, payment_method >>
  /\ UNCHANGED << csvVars, httpVars, authVars >>
  /\ CASE MethodBranch(payment_method) = "equal_installment" ->
            \E ps \in {InstallmentPayments(loan_amount, monthly_interest_rate', total_months')} :
              IF ps = {}
              THEN /\ Raise("ZeroDivisionError")
                   /\ UNCHANGED << monthly_payment, monthly_principal, total_payment,
                                   remaining_balance, month, first_month_payment,
                                   last_month_payment >>
              ELSE /\ monthly_payment' \in ps
                   /\ total_payment' = FMul(monthly_payment', FFromInt(total_months'))
                   /\ remaining_balance' = loan_amount
                   /\ month' = 1
                   /\ pc' = "loop"
                   /\ UNCHANGED << exception, monthly_principal, first_month_payment,
                                   last_month_payment >>
       [] MethodBranch(payment_method) = "equal_principal" ->
            IF total_months' = 0
            THEN /\ Raise("ZeroDivisionError")
                 /\ UNCHANGED << monthly_payment, monthly_principal, total_payment,
                                 remaining_balance, month, first_month_payment,
                                 last_month_payment >>
            ELSE /\ monthly_principal' = FDiv(loan_amount, FFromInt(total_months'))
                 /\ remaining_balance' = loan_amount
                 /\ first_month_payment' = None
                 /\ last_month_payment' = None
                 /\ total_payment' = FZero(0)
                 /\ month' = 1
                 /\ pc' = "loop"
                 /\ UNCHANGED << exception, monthly_payment >>
       [] OTHER ->
            /\ Raise("ValueError")
            /\ UNCHANGED << monthly_payment, monthly_principal, total_payment,
                            remaining_balance, month, first_month_payment,
                            last_month_payment >>

\* lines 47-58: one iteration of the equal_installment loop.  The locals are
\* bound one after the other, as the statements assign them.
LoopEqualInstallment ==
  /\ pc = "loop"
  /\ MethodBranch(payment_method) = "equal_installment"
  /\ InRange(month, total_months)
  /\ \E interest_payment \in {InterestPayment(remaining_balance, monthly_interest_rate)} :
     \E principal_payment \in {FSub(monthly_payment, interest_payment)} :
     \E balance \in {FSub(remaining_balance, principal_payment)} :
       IF Adjusts(month, total_months, balance)
       THEN /\ remaining_balance' = FZero(0)
            /\ monthly_details' =
                 Append(monthly_details,
                        Entry(month, monthly_payment, FAdd(principal_payment, balance),
                              interest_payment, FZero(0)))
       ELSE /\ remaining_balance' = balance
            /\ monthly_details' =
                 Append(monthly_details,
                        Entry(month, monthly_payment, principal_payment,
                              interest_payment, balance))
  /\ month' = month + 1
  /\ UNCHANGED << loan_amount, annual_interest_rate, loan_years, payment_method, pc,
                  exception, monthly_interest_rate, total_months, monthly_payment,
                  monthly_principal, total_payment, first_month_payment,
                  last_month_payment >>
  /\ UNCHANGED << csvVars, httpVars, authVars >>

\* lines 73-85: one iteration of the equal_principal loop
LoopEqualPrincipal ==
  /\ pc = "loop"
  /\ MethodBranch(payment_method) = "equal_principal"
  /\ InRange(month, total_months)
  /\ \E interest_payment \in {InterestPayment(remaining_balance, monthly_interest_rate)} :
       /\ monthly_payment' = FAdd(monthly_principal, interest_payment)
       /\ remaining_balance' = BalanceAfter(remaining_balance, monthly_principal)
       /\ total_payment' = FAdd(total_payment, monthly_payment')
       /\ first_month_payment' = IF month = 1 THEN monthly_payment' ELSE first_month_payment
       /\ last_month_payment' =
            IF month = total_months THEN monthly_payment' ELSE last_month_payment
       /\ monthly_details' =
            Append(monthly_details,
                   Entry(month, monthly_payment', monthly_principal, interest_payment,
                         remaining_balance'))
  /\ month' = month + 1
  /\ UNCHANGED << loan_amount, annual_interest_rate, loan_years, payment_method, pc,
                  exception, monthly_interest_rate, total_months, monthly_principal >>
  /\ UNCHANGED << csvVars, httpVars, authVars >>

\* lines 60 and 87: the loop is exhausted and the function returns
Return ==
  /\ pc = "loop"
  /\ ~InRange(month, total_months)
  /\ pc' = "returned"
  /\ UNCHANGED << loan_amount, annual_interest_rate, loan_years, payment_method,
                  exception, monthly_interest_rate, total_months, monthly_payment,
                  monthly_principal, total_payment, remaining_balance, month,
                  monthly_details, first_month_payment, last_month_payment >>
  /\ UNCHANGED << csvVars, httpVars, authVars >>

vars == << calcVars, csvVars, httpVars, authVars >>

Init == CalcInit

Next == Call \/ LoopEqualInstallment \/ LoopEqualPrincipal \/ Return

Spec == Init /\ [][Next]_vars

\* ------------------------------------------------------------------------
\* export_payment_schedule_to_csv (MortgageCalculator.py, lines 124-147)
\*
\* A path is the sequence of its components, relative to the working
\* directory, which exists.  The file system holds the set of directories that
\* exist and the rows of the file at filepath.  A cell written with the format
\* .2f is the sign of the float and its magnitude in hundredths, rounded to the
\* nearest, ties to even, as Python's float formatting rounds.  Not modelled:
\* absolute paths, a component that exists as a regular file, permissions and
\* other I/O errors.
\* ------------------------------------------------------------------------

MaxRows == 3

\* os.path.dirname(path); << >> is the empty string
DirName(path) == SubSeq(path, 1, Len(path) - 1)

\* the directory exists; the empty name is the working directory for open()
IsDir(d) == d = << >> \/ d \in dirs

\* the directories os.makedirs(d) leaves in place: d and every parent of it
MakedirsResult(d) == dirs \cup {SubSeq(d, 1, k) : k \in 1..Len(d)}

\* |x| * 100 rounded to the nearest integer, ties to even
Hundredths(x) ==
  LET n == BMulSmall(x.m, 100)
  IN  IF x.e >= 0 THEN BShl(n, x.e)
      ELSE LET q == BShr(n, -x.e)
           IN  IF BBit(n, -x.e - 1) = 1 /\ (~BLowZero(n, -x.e - 1) \/ BOdd(q))
               THEN BAdd(q, << 1 >>)
               ELSE q

\* f"{x:.2f}"
Format2f(x) == [neg |-> x.s = 1, hundredths |-> Hundredths(x)]

HeaderRow == << "Month", "Payment", "Principal", "Interest", "Remaining Balance" >>

\* the row written for one schedule entry
DataRow(entry) ==
  << entry[1], Format2f(entry[2]), Format2f(entry[3]), Format2f(entry[4]),
     Format2f(entry[5]) >>

\* the amounts of the sample schedules: a tie that rounds to even, a value just
\* under a tie, a negative value that prints as -0.00, and a large one
CsvAmounts ==
  << << FDec(125, -3), FDec(2675, -3), FDec(-1, -3), FDec(1, 15) >>,
     << FDec(695342, -2), FDec(413675, -2), FDec(281667, -2), FDec(129586325, -2) >> >>

CsvEntry(m, a) == Entry(m, a[1], a[2], a[3], a[4])

\* the schedules of at most MaxRows entries, each entry with one of the amounts
CsvSchedules(amounts) ==
  UNION {{[m \in 1..n |-> CsvEntry(m, amounts[ks[m]])] : ks \in [1..n -> 1..Len(amounts)]}
           : n \in 0..MaxRows}

Filepaths ==
  { << "schedule.csv" >>,
    << "log", "schedule.csv" >>,
    << "log", "run", "schedule.csv" >> }

DirTrees == { {}, { << "log" >> }, { << "log" >>, << "log", "run" >> } }

StaleRows == << << "stale" >> >>

CsvInit ==
  /\ \E amounts \in {CsvAmounts} : monthly_details \in CsvSchedules(amounts)
  /\ filepath \in Filepaths
  /\ payment_method \in {"equal_installment", "equal_principal"}
  /\ dirs \in DirTrees
  /\ \/ csvfile = None
     \/ IsDir(DirName(filepath)) /\ csvfile = StaleRows
  /\ row = None
  /\ pc = "makedirs"
  /\ exception = "none"
  /\ loan_amount = None
  /\ annual_interest_rate = None
  /\ loan_years = None
  /\ monthly_interest_rate = None
  /\ total_months = None
  /\ monthly_payment = None
  /\ monthly_principal = None
  /\ total_payment = None
  /\ remaining_balance = None
  /\ month = None
  /\ first_month_payment = None
  /\ last_month_payment = None
  /\ HttpIdle
  /\ AuthIdle

\* line 134: os.makedirs(os.path.dirname(filepath), exist_ok=True).  mkdir of
\* the empty name raises FileNotFoundError, and exist_ok does not cover it.
Makedirs ==
  /\ pc = "makedirs"
  /\ IF DirName(filepath) = << >>
     THEN /\ Raise("FileNotFoundError")
          /\ UNCHANGED dirs
     ELSE /\ dirs' = MakedirsResult(DirName(filepath))
          /\ pc' = "open"
          /\ UNCHANGED exception
  /\ UNCHANGED << filepath, csvfile, row, monthly_details, payment_method >>
  /\ UNCHANGED << loan_amount, annual_interest_rate, loan_years, monthly_interest_rate,
                  total_months, monthly_payment, monthly_principal, total_payment,
                  remaining_balance, month, first_month_payment, last_month_payment >>
  /\ UNCHANGED << httpVars, authVars >>

\* line 136: open(filepath, 'w') creates the file or truncates it
Open ==
  /\ pc = "open"
  /\ IsDir(DirName(filepath))
  /\ csvfile' = << >>
  /\ pc' = "header"
  /\ UNCHANGED << filepath, dirs, row, monthly_details, payment_method, calcLocals >>
  /\ UNCHANGED << httpVars, authVars >>

\* line 140: the header row
WriteHeader ==
  /\ pc = "header"
  /\ csvfile' = Append(csvfile, HeaderRow)
  /\ row' = 1
  /\ pc' = "rows"
  /\ UNCHANGED << filepath, dirs, monthly_details, payment_method, calcLocals >>
  /\ UNCHANGED << httpVars, authVars >>

\* lines 143-145: one iteration of the loop over monthly_details
WriteRow ==
  /\ pc = "rows"
  /\ row <= Len(monthly_details)
  /\ csvfile' = Append(csvfile, DataRow(monthly_details[row]))
  /\ row' = row + 1
  /\ UNCHANGED << pc, filepath, dirs, monthly_details, payment_method, calcLocals >>
  /\ UNCHANGED << httpVars, authVars >>

\* lines 145-147: the loop is exhausted, the file is closed, the function returns
Close ==
  /\ pc = "rows"
  /\ row > Len(monthly_details)
  /\ pc' = "exported"
  /\ UNCHANGED << filepath, dirs, csvfile, row, monthly_details, payment_method,
                  calcLocals >>
  /\ UNCHANGED << httpVars, authVars >>

NextCsv == Makedirs \/ Open \/ WriteHeader \/ WriteRow \/ Close

SpecCsv == CsvInit /\ [][NextCsv]_vars

\* ------------------------------------------------------------------------
\* MockHttpRequest._make_request (MockHttpqrequest.py, lines 93-157)
\*
\* One attempt is session.request followed by raise_for_status: it returns a
\* response, or raises a RequestException, which carries a response when it is
\* an HTTPError and none when the request itself failed.  Exceptions that are
\* not RequestExceptions, and the contents of the request, are not modelled.
\* ------------------------------------------------------------------------

MaxRetries == 3

\* the status codes raise_for_status lets through
OkStatuses == {200, 204}

\* the status codes raise_for_status raises an HTTPError for
ErrorStatuses == {400, 404, 499, 429, 500, 502, 503}

\* the RequestExceptions an attempt may raise
RequestExceptions ==
  {[type |-> "ConnectionError"], [type |-> "Timeout"]}
    \cup {[type |-> "HTTPError", status_code |-> c] : c \in ErrorStatuses}

\* raise None: "exceptions must derive from BaseException"
TypeError == [type |-> "TypeError"]

\* the test without the exception for 429: every 4xx is raised again at once
IsClientErrorWith429(e) ==
  /\ e.type = "HTTPError"
  /\ 400 <= e.status_code
  /\ e.status_code < 500

\* lines 144-147: a client error other than 429 is raised again at once
IsClientError(e) ==
  /\ e.type = "HTTPError"
  /\ 400 <= e.status_code
  /\ e.status_code < 500
  /\ e.status_code # 429

\* line 125: the test of the while loop
MayAttempt(n, limit) == n < limit

HttpInit ==
  /\ max_retries \in 0..MaxRetries
  /\ attempt = None
  /\ last_exception = None
  /\ raised = None
  /\ response = None
  /\ sleeps = << >>
  /\ pc = "make_request"
  /\ exception = "none"
  /\ loan_amount = None
  /\ annual_interest_rate = None
  /\ loan_years = None
  /\ payment_method = None
  /\ monthly_interest_rate = None
  /\ total_months = None
  /\ monthly_payment = None
  /\ monthly_principal = None
  /\ total_payment = None
  /\ remaining_balance = None
  /\ month = None
  /\ monthly_details = None
  /\ first_month_payment = None
  /\ last_month_payment = None
  /\ CsvIdle
  /\ AuthIdle

\* lines 108-123: the call up to the loop
MakeRequest ==
  /\ pc = "make_request"
  /\ attempt' = 0
  /\ last_exception' = None
  /\ pc' = "while"
  /\ UNCHANGED << max_retries, raised, response, sleeps >>
  /\ UNCHANGED << calcLocals, payment_method, monthly_details, csvVars, authVars >>

\* lines 125-137: an attempt whose response passes raise_for_status
AttemptReturns ==
  /\ pc = "while"
  /\ MayAttempt(attempt, max_retries)
  /\ attempt' = attempt + 1
  /\ response' \in OkStatuses
  /\ pc' = "returned"
  /\ UNCHANGED << max_retries, last_exception, raised, sleeps >>
  /\ UNCHANGED << calcLocals, payment_method, monthly_details, csvVars, authVars >>

\* lines 125-153: an attempt that raises a RequestException
AttemptFails ==
  /\ pc = "while"
  /\ MayAttempt(attempt, max_retries)
  /\ attempt' = attempt + 1
  /\ last_exception' \in RequestExceptions
  /\ IF IsClientError(last_exception')
     THEN /\ raised' = last_exception'
          /\ pc' = "raised"
          /\ UNCHANGED sleeps
     ELSE /\ sleeps' = IF attempt' < max_retries
                       THEN Append(sleeps, 2 ^ attempt')
                       ELSE sleeps
          /\ UNCHANGED << pc, raised >>
  /\ UNCHANGED << max_retries, response >>
  /\ UNCHANGED << calcLocals, payment_method, monthly_details, csvVars, authVars >>

\* lines 155-157: the loop is over and last_exception is raised
RaiseLast ==
  /\ pc = "while"
  /\ ~MayAttempt(attempt, max_retries)
  /\ raised' = IF last_exception = None THEN TypeError ELSE last_exception
  /\ pc' = "raised"
  /\ UNCHANGED << max_retries, attempt, last_exception, response, sleeps >>
  /\ UNCHANGED << calcLocals, payment_method, monthly_details, csvVars, authVars >>

NextHttp == MakeRequest \/ AttemptReturns \/ AttemptFails \/ RaiseLast

SpecHttp == HttpInit /\ [][NextHttp]_vars

\* ------------------------------------------------------------------------
\* MockHttpRequest: set_token, clear_token and login (MockHttpqrequest.py,
\* lines 47-49, 58-77 and 187-248)
\*
\* A Python string is the record [str |-> s], so that it compares with None.
\* The token arguments are strings, as the signatures declare.  login is one
\* step: its request (post, and below it _make_request) does not touch the
\* token, so only its outcome is drawn: it raises, or it returns a response
\* whose body is parsed and searched for the token.
\* ------------------------------------------------------------------------

Str(s) == [str |-> s]

Tokens == {Str(""), Str("abc"), Str("xyz")}

TokenTypes == {Str("Bearer"), Str("Basic")}

\* a header that carries the token alone
AuthorizationHeaderTokenOnly(ttype, token) == Str(token.str)

\* line 68: f"{token_type} {token}"
AuthorizationHeader(ttype, token) == Str(ttype.str \o " " \o token.str)

\* login's auth_type: the three it supports and one it does not
AuthTypes == {"json", "form", "basic", "digest"}

\* what self.post does: it raises a RequestException or returns a response
PostOutcomes == {"RequestException", "response"}

\* an empty dict, the default of token.get(key, {})
EmptyDict == [dict |-> "empty"]

\* the body of the response: text that is not JSON, JSON that is not an
\* object, or an object in which the token field is absent, null or a string
Bodies ==
  {[json |-> "invalid"], [json |-> "list"], [json |-> "object", has |-> FALSE]}
    \cup {[json |-> "object", has |-> TRUE, value |-> v] : v \in {None} \cup Tokens}

\* lines 227-234: the token found in the parsed body; with a dotted
\* token_field an absent key yields {}, else None
ExtractToken(body, dotted) ==
  IF body.has THEN body.value
  ELSE IF dotted THEN EmptyDict ELSE None

\* line 238: if token
Truthy(v) == v # None /\ v # EmptyDict /\ v # Str("")

\* lines 207-248: how a login ends, from its inputs
LoginOutcome(auth_type, post, body, dotted) ==
  IF auth_type \notin {"json", "form", "basic"} THEN "ValueError"
  ELSE IF post = "RequestException" THEN "RequestException"
  ELSE IF body.json = "invalid" THEN "JSONDecodeError"
  ELSE IF body.json = "list" THEN "AttributeError"
  ELSE IF Truthy(ExtractToken(body, dotted)) THEN "token"
  ELSE "no token"

\* lines 20-56: a MockHttpRequest after its construction
AuthInit ==
  /\ auth_token = None
  /\ token_type = None
  /\ authorization = None
  /\ call = [op |-> "__init__"]
  /\ pc = "idle"
  /\ exception = "none"
  /\ loan_amount = None
  /\ annual_interest_rate = None
  /\ loan_years = None
  /\ payment_method = None
  /\ monthly_interest_rate = None
  /\ total_months = None
  /\ monthly_payment = None
  /\ monthly_principal = None
  /\ total_payment = None
  /\ remaining_balance = None
  /\ month = None
  /\ monthly_details = None
  /\ first_month_payment = None
  /\ last_month_payment = None
  /\ CsvIdle
  /\ HttpIdle

\* lines 66-68
SetTokenTo(token, ttype) ==
  /\ auth_token' = token
  /\ token_type' = ttype
  /\ authorization' = AuthorizationHeader(ttype, token)

\* lines 58-69
SetToken ==
  /\ pc = "idle"
  /\ \E token \in Tokens, ttype \in TokenTypes :
       /\ SetTokenTo(token, ttype)
       /\ call' = [op |-> "set_token", token |-> token, token_type |-> ttype]
  /\ UNCHANGED << calcVars, csvVars, httpVars >>

\* lines 71-77
ClearToken ==
  /\ pc = "idle"
  /\ auth_token' = None
  /\ token_type' = None
  /\ authorization' = None
  /\ call' = [op |-> "clear_token"]
  /\ UNCHANGED << calcVars, csvVars, httpVars >>

\* lines 187-248
Login ==
  /\ pc = "idle"
  /\ \E auth_type \in AuthTypes, ttype \in TokenTypes, dotted \in BOOLEAN,
        post \in PostOutcomes, body \in Bodies :
       /\ call' = [op |-> "login", auth_type |-> auth_type, token_type |-> ttype,
                   dotted |-> dotted, post |-> post, body |-> body,
                   outcome |-> LoginOutcome(auth_type, post, body, dotted)]
       /\ IF LoginOutcome(auth_type, post, body, dotted) = "token"
          THEN SetTokenTo(ExtractToken(body, dotted), ttype)
          ELSE UNCHANGED << auth_token, token_type, authorization >>
  /\ UNCHANGED << calcVars, csvVars, httpVars >>

NextAuth == SetToken \/ ClearToken \/ Login

SpecAuth == AuthInit /\ [][NextAuth]_vars

\* ------------------------------------------------------------------------
\* Properties of mortgage_calculator
\* ------------------------------------------------------------------------

\* the preconditions of the specification: principal > 0, termYears > 0,
\* annualInterestRate >= 0
ValidParameters ==
  /\ FLt(FZero(0), loan_amount)
  /\ loan_years > 0
  /\ FLe(FZero(0), annual_interest_rate)

KnownMethod == payment_method \in {"equal_installment", "equal_principal"}

Called == pc # "call"

LastEntry == monthly_details[Len(monthly_details)]

\* the exact sum of the principal portions of the entries lo..hi
RECURSIVE XSumPrincipal(_, _, _)
XSumPrincipal(d, lo, hi) ==
  IF lo > hi THEN FZero(0)
  ELSE IF lo = hi THEN d[lo][3]
  ELSE XAdd(XSumPrincipal(d, lo, (lo + hi) \div 2),
            XSumPrincipal(d, (lo + hi) \div 2 + 1, hi))

\* C1: a call whose parameters violate a precondition, under either policy,
\* fails with the invalid-parameter error before any schedule entry is
\* computed, and returns no schedule.  (The calculator's only parameter error
\* is the ValueError of line 90; the statement accepts it.)
C1_InvalidParametersFailFast ==
  (~ValidParameters /\ KnownMethod /\ Called)
    => (pc = "raised" /\ exception = "ValueError" /\ monthly_details = << >>)

\* C2: a call whose policy is neither equal_installment nor equal_principal
\* fails with the unsupported-policy error (the ValueError of line 90),
\* whatever the other parameters are, and has produced no schedule entry.
C2_UnknownMethodRaises ==
  (~KnownMethod /\ Called)
    => (pc = "raised" /\ exception = "ValueError" /\ monthly_details = << >>)

\* C2 witness: an unknown policy has been rejected in a call whose term of
\* zero years would have divided by zero under either policy.
C2_Witness ==
  /\ pc = "raised"
  /\ payment_method = "unknown"
  /\ loan_years = 0

\* C3: for valid parameters and both policies, the returned schedule has
\* exactly loan_years * 12 entries and the i-th entry's month is i.
C3_ScheduleLength ==
  (pc = "returned" /\ ValidParameters)
    => /\ Len(monthly_details) = loan_years * 12
       /\ \A i \in 1..Len(monthly_details) : monthly_details[i][1] = i

\* C3 witness: a schedule of the longest term has been returned.
C3_Witness ==
  /\ pc = "returned"
  /\ ValidParameters
  /\ loan_years = MaxYears
  /\ Len(monthly_details) = MaxYears * 12

\* C4: for valid parameters the final entry's remaining balance is within 0.01
\* of 0 under both policies, and exactly 0 under equal_installment.
C4_FinalBalance ==
  (pc = "returned" /\ ValidParameters)
    => /\ XAbsLe(LastEntry[5], 1, 100)
       /\ payment_method = "equal_installment" => FIsZero(LastEntry[5])

\* C5: for valid parameters and both policies, the sum of the principal
\* portions of all entries is within 0.01 of the principal.
C5_PrincipalSum ==
  (pc = "returned" /\ ValidParameters)
    => XAbsLe(XAdd(XSumPrincipal(monthly_details, 1, Len(monthly_details)),
                   FNeg(loan_amount)), 1, 100)

\* C6: under equal_installment, for valid parameters, every entry, the final
\* adjusted one included, carries the same payment, and it is the
\* monthly_payment the call returns.
C6_ConstantPayment ==
  (payment_method = "equal_installment" /\ ValidParameters /\ pc \in {"loop", "returned"})
    => \A i \in 1..Len(monthly_details) : monthly_details[i][2] = monthly_payment

\* C6 witness: a schedule has been returned whose final entry was adjusted:
\* its balance is 0 and its principal portion is not payment - interest.
C6_Witness ==
  /\ pc = "returned"
  /\ payment_method = "equal_installment"
  /\ ValidParameters
  /\ FIsZero(LastEntry[5])
  /\ ~FEq(LastEntry[3], FSub(LastEntry[2], LastEntry[4]))

\* C7: under equal_principal, for valid parameters, every entry's principal
\* portion is loan_amount / total_months and no payment is greater than the
\* payment of the month before.
C7_EqualPrincipal ==
  (payment_method = "equal_principal" /\ ValidParameters /\ pc \in {"loop", "returned"})
    => /\ \A i \in 1..Len(monthly_details) :
            monthly_details[i][3] = FDiv(loan_amount, FFromInt(loan_years * 12))
       /\ \A i \in 2..Len(monthly_details) :
            FLe(monthly_details[i][2], monthly_details[i - 1][2])

\* C7 witness: a schedule has been returned at a positive rate, whose last
\* payment is smaller than its first.
C7_Witness ==
  /\ pc = "returned"
  /\ payment_method = "equal_principal"
  /\ ValidParameters
  /\ ~FIsZero(annual_interest_rate)
  /\ FLt(last_month_payment, first_month_payment)

\* C8: with annual_interest_rate = 0 and otherwise valid parameters,
\* equal_installment returns monthly_payment = loan_amount / total_months and
\* every entry's interest is 0.
C8_ZeroRate ==
  (payment_method = "equal_installment" /\ ValidParameters
     /\ FIsZero(annual_interest_rate) /\ Called)
    => /\ pc \in {"loop", "returned"}
       /\ monthly_payment = FDiv(loan_amount, FFromInt(loan_years * 12))
       /\ \A i \in 1..Len(monthly_details) : FIsZero(monthly_details[i][4])

\* C8 witness: a schedule has been returned at rate 0.
C8_Witness ==
  /\ pc = "returned"
  /\ payment_method = "equal_installment"
  /\ ValidParameters
  /\ FIsZero(annual_interest_rate)
  /\ Len(monthly_details) = loan_years * 12

\* the exact value of: balance of entry k + principal portions of entries
\* 1..k - loan_amount
LedgerError(k) ==
  XAdd(XAdd(XSumPrincipal(monthly_details, 1, k), monthly_details[k][5]),
       FNeg(loan_amount))

\* C12: under both policies, for valid parameters and every month k, the
\* remaining balance of entry k plus the sum of the principal portions of
\* entries 1..k equals the original principal, exactly, the final
\* equal_installment entry after its adjustment included.
C12_Ledger ==
  (ValidParameters /\ pc \in {"loop", "returned"})
    => \A k \in 1..Len(monthly_details) : FIsZero(LedgerError(k))

\* ------------------------------------------------------------------------
\* Properties of export_payment_schedule_to_csv
\* ------------------------------------------------------------------------

\* the rows the file holds when the header and every entry have been written
ExpectedRows ==
  << HeaderRow >> \o [i \in 1..Len(monthly_details) |-> DataRow(monthly_details[i])]

\* C9: for every schedule and every destination path, the export ends with
\* the destination directory in place and the file holding the header row
\* followed by one row per schedule entry, in schedule order, and nothing else.
C9_ExportWritesSchedule ==
  pc \in {"exported", "raised"}
    => /\ pc = "exported"
       /\ IsDir(DirName(filepath))
       /\ csvfile = ExpectedRows

\* ------------------------------------------------------------------------
\* Properties of MockHttpRequest._make_request
\* ------------------------------------------------------------------------

\* C10: for every max_retries >= 0, a call never makes more than max_retries
\* attempts, and a call all of whose attempts failed with a retryable
\* RequestException ends by raising the RequestException of its last attempt.
C10_RetriesThenRaises ==
  /\ pc # "make_request" => attempt <= max_retries
  /\ (pc = "raised" /\ ~IsClientError(raised))
       => (raised \in RequestExceptions /\ raised = last_exception)

\* a 429 or a 5xx response
IsRetryableStatus(e) ==
  /\ e.type = "HTTPError"
  /\ e.status_code = 429 \/ (500 <= e.status_code /\ e.status_code < 600)

\* the step is an attempt that failed with e
AttemptFailedWith(e) ==
  /\ pc = "while"
  /\ attempt' = attempt + 1
  /\ last_exception' = e
  /\ pc' # "returned"

\* C11: an attempt that fails with a 4xx status other than 429 ends the call
\* with that error, without a backoff sleep, however many attempts remain, and
\* nothing follows it; an attempt that fails with 429 or a 5xx status while
\* attempts remain is followed by a backoff sleep and the loop goes on.
C11_ClientErrorsNotRetried ==
  [][ /\ \A e \in RequestExceptions :
           AttemptFailedWith(e) =>
             /\ (e.type = "HTTPError" /\ e.status_code \in 400..499 /\ e.status_code # 429)
                  => (pc' = "raised" /\ raised' = e /\ sleeps' = sleeps)
             /\ (IsRetryableStatus(e) /\ attempt' < max_retries)
                  => (pc' = "while" /\ raised' = None
                        /\ sleeps' = Append(sleeps, 2 ^ attempt'))
      /\ pc = "raised" => (attempt' = attempt /\ sleeps' = sleeps /\ pc' = "raised")
    ]_vars

\* C11 witness: a call has ended on a 4xx status with attempts left, after
\* its earlier attempts were retried with a backoff sleep each.
C11_Witness ==
  /\ pc = "raised"
  /\ IsClientError(raised)
  /\ attempt < max_retries
  /\ attempt >= 2
  /\ Len(sleeps) = attempt - 1

\* ------------------------------------------------------------------------
\* Properties of MockHttpRequest's token
\* ------------------------------------------------------------------------

\* the session's Authorization header agrees with auth_token and token_type
HeaderMatchesToken ==
  /\ authorization # None <=> auth_token # None
  /\ authorization # None
       => authorization = Str(token_type.str \o " " \o auth_token.str)

\* the step is a login that failed or found no token
LoginWithoutToken ==
  /\ call'.op = "login"
  /\ call'.outcome # "token"

\* C13: after any sequence of set_token, clear_token and login calls the
\* session has an Authorization header if and only if auth_token is not None,
\* and the header is "<token_type> <auth_token>"; a login that fails or
\* finds no token leaves auth_token, token_type and the header unchanged.
C13_HeaderFollowsToken ==
  /\ []HeaderMatchesToken
  /\ [][LoginWithoutToken => UNCHANGED << auth_token, token_type, authorization >>]_vars

\* C13 witness: a token is set, and the last call was a login that found no
\* token in a response it received.
C13_Witness ==
  /\ auth_token \in Tokens
  /\ authorization # None
  /\ call.op = "login"
  /\ call.outcome = "no token"

====
